---------------------------- MODULE Spec2Model ----------------------------
(***************************************************************************)
(* Model of the locomotion glue of my_bevy_start: the two applications of  *)
(* the repository (src/lib.rs, the XR library entry point, and             *)
(* src/main.rs, the desktop binary) and the asset registry                 *)
(* (src/asset_handler.rs).                                                 *)
(*                                                                         *)
(* Numbers.  Stick values are in tenths (0.8 is 8), squared lengths in     *)
(* hundredths (0.05 is 5), lengths in thousandths (k = 0.01 times a stick  *)
(* value in tenths).  Angles are eighth-turns (FRAC_PI_4 is 1), so a       *)
(* rotation about Y is an element of 0..7 and cosines and sines are of the *)
(* form r + s*(sqrt(2)/2) with r, s integers: a coordinate is the record   *)
(* [r, s].  Arithmetic is that of the reals, not of f32.                   *)
(***************************************************************************)
EXTENDS Integers, Sequences, FiniteSets, TLC

\* ------------------------------------------------------------ bounds
MaxTicks == 5        \* executions of snap_turn_system
MaxMoves == 2        \* executions of run
MaxSessions == 2     \* XrSessionCreated runs
MaxLookups == 3
MaxNodes == 5
MaxAnimCalls == 1
MaxFrames == 5
MaxSceneNodes == 2
MaxUnwrapFrames == 3
MaxCommuteFrames == 2      \* get_by_index calls of the lookup specification

\* ------------------------------------------------- program constants
TURN_ON == 8         \* turn_value.abs() > 0.8
TURN_OFF == 2        \* turn_value.abs() < 0.2
DEAD_ZONE == 5       \* movevals.length_squared() > 0.05
SPEED == 1           \* lib.rs: 0.01 per unit of stick
MAIN_SPEED == 5      \* main.rs: 0.05 per unit of stick
FRAC_PI_4 == 1       \* one eighth-turn
NOTHING == 2147483647 \* usize::MAX, held as the largest 32-bit integer

\* --------------------------------------------------------- arithmetic
Num(r, s) == [r |-> r, s |-> s]
Zero == Num(0, 0)
One == Num(1, 0)
NAdd(a, b) == Num(a.r + b.r, a.s + b.s)
NSub(a, b) == Num(a.r - b.r, a.s - b.s)
NNeg(a) == Num(-a.r, -a.s)
NScale(a, k) == Num(a.r * k, a.s * k)
\* twice the product: (sqrt(2)/2)^2 = 1/2
NMul2(a, b) == Num(2 * a.r * b.r + a.s * b.s, 2 * (a.r * b.s + a.s * b.r))
NHalf(a) == Num(a.r \div 2, a.s \div 2)
Abs(n) == IF n < 0 THEN -n ELSE n

Vec3(x, y, z) == [x |-> x, y |-> y, z |-> z]
VecZERO == Vec3(Zero, Zero, Zero)
VecX == Vec3(One, Zero, Zero)
VecZ == Vec3(Zero, Zero, One)
IVec3(x, y, z) == Vec3(Num(x, 0), Num(y, 0), Num(z, 0))
VAdd(a, b) == Vec3(NAdd(a.x, b.x), NAdd(a.y, b.y), NAdd(a.z, b.z))
VSub(a, b) == Vec3(NSub(a.x, b.x), NSub(a.y, b.y), NSub(a.z, b.z))
VNeg(a) == Vec3(NNeg(a.x), NNeg(a.y), NNeg(a.z))
VScale(a, k) == Vec3(NScale(a.x, k), NScale(a.y, k), NScale(a.z, k))

\* cosine and sine of k eighth-turns
Cos8(k) ==
    CASE k % 8 = 0 -> Num(1, 0)
      [] k % 8 = 1 -> Num(0, 1)
      [] k % 8 = 2 -> Num(0, 0)
      [] k % 8 = 3 -> Num(0, -1)
      [] k % 8 = 4 -> Num(-1, 0)
      [] k % 8 = 5 -> Num(0, -1)
      [] k % 8 = 6 -> Num(0, 0)
      [] OTHER -> Num(0, 1)
Sin8(k) == Cos8(k + 6)

\* Quat::from_rotation_y(angle), angle in eighth-turns
from_rotation_y(angle) == angle % 8
\* Quat * Quat for rotations about Y
quat_mul(a, b) == (a + b) % 8
\* Quat::mul_vec3 for a rotation about Y:
\*   x' = x cos + z sin,  y' = y,  z' = -x sin + z cos
mul_vec3(q, v) ==
    Vec3(NHalf(NAdd(NMul2(Cos8(q), v.x), NMul2(Sin8(q), v.z))),
         v.y,
         NHalf(NSub(NMul2(Cos8(q), v.z), NMul2(Sin8(q), v.x))))

\* Transform::rotate: rotation = q * rotation
rotate(t, q) == [t EXCEPT !.rotation = quat_mul(q, t.rotation)]
rotate_around_own_origin(t, point, q) == rotate(t, q)

\* Transform::rotate_around: translation = point + q * (translation - point),
\* then rotate(q)
rotate_around(t, point, q) ==
    rotate([t EXCEPT !.translation = VAdd(point, mul_vec3(q, VSub(t.translation, point)))], q)


\* ------------------------------------------------------------- inputs
\* x component of the "turn" action value, in tenths
TurnVals == {-9, 1, 2, 5, 8, 9}
\* the "move" action value, in tenths
Vec2(x, y) == [x |-> x, y |-> y]
MoveVals == {Vec2(1, 1), Vec2(1, 2), Vec2(2, -3)}
\* orientation of the right hand (rotations about Y)
HandRots == {0, 1}
\* translation of the headset view relative to the tracking root
HeadLocals == {IVec3(0, 0, 0), IVec3(3, 16, -2)}

\* --------------------------------------------------------------- state
VARIABLES
    app,                \* "lib" (src/lib.rs) or "main" (src/main.rs)
    phase,              \* schedule reached: "PreStartup", "Startup", "Update"
    asset_elements,     \* AssetElementList.elements
    turn_state,         \* TurnState
    root_transform,     \* Transform of the XrTrackingRoot entity
    xr_tracking_roots,  \* number of entities with XrTrackingRoot
    headset_views,      \* number of entities with HeadsetView
    right_hand_tracked, \* the HandRight entity has a GlobalTransform
    ticks,              \* executions of snap_turn_system so far
    moves,              \* executions of run so far
    turns,              \* snap-turns applied so far
    last,               \* the last system executed, with the values it read
    released,           \* a tick with |turn_value| < 0.2 came after the last snap-turn
    gesture,            \* the deflection in progress
    scenario,           \* progress through the turn_value sequence 0.9 0.9 0.1 0.9
    lookup,             \* the last get_by_index call and the results seen per index
    started,            \* the Startup systems that have run
    move_actions,       \* MoveActions: shown_scene and new_scene_released
    scenes,             \* the entities carrying a SceneRoot
    spawned,            \* number of SceneRoot entities spawned so far
    anim,               \* the last play_animation_when_ready call on a given subtree
    frames,             \* executions of spawn_new_scene so far
    switches,           \* scene switches so far
    press,              \* the contiguous press of new_scene in progress
    started_at,         \* the values of switches at which an animation was started
    scene_last,         \* what the last execution of spawn_new_scene did
    crashed,            \* a system has panicked: the app is gone
    uframes,            \* system executions with a possibly missing action value
    unwrap_last,        \* the last such execution: the system and whether the value was missing
    cframes,            \* frames in which run and snap_turn_system both ran
    commute             \* the last such frame: its inputs and the outcome of the other order

\* bookkeeping of the scene systems
sceneGhost == <<frames, switches, press, started_at, scene_last>>

\* the state of the scene and animation systems
sceneVars == <<started, move_actions, scenes, spawned, anim, sceneGhost>>

\* the state of the executions with a possibly missing action value
unwrapVars == <<crashed, uframes, unwrap_last>>

\* the state of the frames that run both writers of the root
commuteVars == <<cframes, commute>>

vars == <<app, phase, asset_elements, turn_state, root_transform, xr_tracking_roots,
          headset_views, right_hand_tracked, ticks, moves, turns, last, released,
          gesture, scenario, lookup, sceneVars, unwrapVars, commuteVars>>

\* ------------------------------------------------------ asset registry
ASSET_ELEMENTS == <<[file_name |-> "simpleHumanRig.glb"], [file_name |-> "simpleWall.glb"]>>

\* asset_server.load(GltfAssetLabel::Scene(0).from_asset(file_name))
load_scene(file_name) == [label |-> "Scene0", path |-> file_name]

\* the elements pushed by setup_assets, one per entry of ASSET_ELEMENTS, in order
setup_assets == [i \in 1..Len(ASSET_ELEMENTS) |-> [asset |-> load_scene(ASSET_ELEMENTS[i].file_name)]]

None == [some |-> FALSE]
Some(v) == [some |-> TRUE, value |-> v]

get_by_index_off_by_one(elements, index) ==
    IF index <= Len(elements) /\ index >= 1 THEN Some(elements[index].asset) ELSE None

\* self.elements.get(index).map(|e| &e.asset); sequences are 1-based
get_by_index(elements, index) ==
    IF index < Len(elements) THEN Some(elements[index + 1].asset) ELSE None

\* -------------------------------------------------- scenes and animation
GLTF_PATH == "simpleHumanRig.glb"

\* a node of the hierarchy a loaded scene spawns below its SceneRoot entity
Node(player) == [player |-> player, playing |-> FALSE, graph |-> FALSE]

\* the descendants of a scene entity, in iter_descendants order
Subtrees(n) == UNION {[1..k -> {Node(TRUE), Node(FALSE)}] : k \in 0..n}

\* an entity with a SceneRoot, as spawned: the scene is not loaded yet
SceneEntity(id, origin, handle, animation_to_play, observers) ==
    [id |-> id, origin |-> origin, asset |-> handle,
     animation_to_play |-> animation_to_play, observers |-> observers,
     ready |-> FALSE, runs |-> 0, nodes |-> <<>>]

setup_mesh_and_animation_observed_twice(elements, id) ==
    LET handle == get_by_index(elements, 0)
    IN  IF handle.some THEN {SceneEntity(id, "setup_mesh_and_animation", handle.value, TRUE, 2)} ELSE {}

\* lib.rs: if the registry has an entry 0, spawn (animation_to_play, SceneRoot)
\* and attach the observer
setup_mesh_and_animation(elements, id) ==
    LET handle == get_by_index(elements, 0)
    IN  IF handle.some THEN {SceneEntity(id, "setup_mesh_and_animation", handle.value, TRUE, 1)} ELSE {}

\* main.rs: the scene of GLTF_PATH is spawned unconditionally
main_setup_mesh_and_animation(id) == {SceneEntity(id, "setup_mesh_and_animation", load_scene(GLTF_PATH), TRUE, 1)}

play_animation_first_only(has_animation_to_play, nodes) ==
    LET players == {i \in 1..Len(nodes) : nodes[i].player}
    IN  IF has_animation_to_play
        THEN [i \in 1..Len(nodes) |->
                 IF i \in players /\ \A j \in players : i <= j
                 THEN [nodes[i] EXCEPT !.playing = TRUE, !.graph = TRUE]
                 ELSE nodes[i]]
        ELSE nodes

play_animation_without_component(has_animation_to_play, nodes) ==
    [i \in 1..Len(nodes) |->
        IF nodes[i].player THEN [nodes[i] EXCEPT !.playing = TRUE, !.graph = TRUE]
        ELSE nodes[i]]

\* the observer: if the entity has an AnimationToPlay, each descendant with an
\* AnimationPlayer plays the clip on repeat and gets the AnimationGraphHandle
play_animation_when_ready(has_animation_to_play, nodes) ==
    IF has_animation_to_play
    THEN [i \in 1..Len(nodes) |->
             IF nodes[i].player THEN [nodes[i] EXCEPT !.playing = TRUE, !.graph = TRUE]
             ELSE nodes[i]]
    ELSE nodes

\* imported by lib.rs from asset_handler, whose source does not define it: the
\* number of entries of ASSET_ELEMENTS
MAX_ASSET_ELEMENTS == Len(ASSET_ELEMENTS)

\* the observers attached to an entity run one after the other on its hierarchy
RECURSIVE run_observers(_, _, _)
run_observers(observers, has_animation_to_play, nodes) ==
    IF observers = 0 THEN nodes
    ELSE run_observers(observers - 1, has_animation_to_play,
                       play_animation_when_ready(has_animation_to_play, nodes))

spawn_new_scene_no_debounce(any, ma, scs, elements, id) ==
    IF ~any
    THEN [move_actions |-> [ma EXCEPT !.new_scene_released = TRUE], scenes |-> scs,
          no_asset |-> FALSE]
    ELSE LET next == ma.shown_scene + 1
             shown == IF next >= MAX_ASSET_ELEMENTS THEN 0 ELSE next
             handle == get_by_index(elements, shown)
         IN  [move_actions |-> [ma EXCEPT !.shown_scene = shown],
              scenes |-> IF handle.some
                         THEN {SceneEntity(id, "spawn_new_scene", handle.value, FALSE, 0)}
                         ELSE {},
              no_asset |-> ~handle.some]

spawn_new_scene_wraps_late(any, ma, scs, elements, id) ==
    IF ~any
    THEN [move_actions |-> [ma EXCEPT !.new_scene_released = TRUE], scenes |-> scs,
          no_asset |-> FALSE]
    ELSE IF ~ma.new_scene_released
    THEN [move_actions |-> ma, scenes |-> scs, no_asset |-> FALSE]
    ELSE LET next == ma.shown_scene + 1
             shown == IF next > MAX_ASSET_ELEMENTS THEN 0 ELSE next
             handle == get_by_index(elements, shown)
         IN  [move_actions |-> [ma EXCEPT !.new_scene_released = FALSE, !.shown_scene = shown],
              scenes |-> IF handle.some
                         THEN {SceneEntity(id, "spawn_new_scene", handle.value, FALSE, 0)}
                         ELSE {},
              no_asset |-> ~handle.some]

spawn_new_scene_without_despawn(any, ma, scs, elements, id) ==
    IF ~any
    THEN [move_actions |-> [ma EXCEPT !.new_scene_released = TRUE], scenes |-> scs,
          no_asset |-> FALSE]
    ELSE IF ~ma.new_scene_released
    THEN [move_actions |-> ma, scenes |-> scs, no_asset |-> FALSE]
    ELSE LET next == ma.shown_scene + 1
             shown == IF next >= MAX_ASSET_ELEMENTS THEN 0 ELSE next
             handle == get_by_index(elements, shown)
         IN  [move_actions |-> [ma EXCEPT !.new_scene_released = FALSE, !.shown_scene = shown],
              scenes |-> scs \cup (IF handle.some
                         THEN {SceneEntity(id, "spawn_new_scene", handle.value, FALSE, 0)}
                         ELSE {}),
              no_asset |-> ~handle.some]

spawn_new_scene_animated(any, ma, scs, elements, id) ==
    IF ~any
    THEN [move_actions |-> [ma EXCEPT !.new_scene_released = TRUE], scenes |-> scs,
          no_asset |-> FALSE]
    ELSE IF ~ma.new_scene_released
    THEN [move_actions |-> ma, scenes |-> scs, no_asset |-> FALSE]
    ELSE LET next == ma.shown_scene + 1
             shown == IF next >= MAX_ASSET_ELEMENTS THEN 0 ELSE next
             handle == get_by_index(elements, shown)
         IN  [move_actions |-> [ma EXCEPT !.new_scene_released = FALSE, !.shown_scene = shown],
              scenes |-> IF handle.some
                         THEN {SceneEntity(id, "spawn_new_scene", handle.value, TRUE, 1)}
                         ELSE {},
              no_asset |-> ~handle.some]

\* spawn_new_scene with the action value any: a released button re-arms; a press
\* that finds the button re-armed advances shown_scene with wrap-around, despawns
\* every SceneRoot entity and spawns the scene of the new index, a bare
\* (Transform, SceneRoot), or logs that there is no such asset
spawn_new_scene(any, ma, scs, elements, id) ==
    IF ~any
    THEN [move_actions |-> [ma EXCEPT !.new_scene_released = TRUE], scenes |-> scs,
          no_asset |-> FALSE]
    ELSE IF ~ma.new_scene_released
    THEN [move_actions |-> ma, scenes |-> scs, no_asset |-> FALSE]
    ELSE LET next == ma.shown_scene + 1
             shown == IF next >= MAX_ASSET_ELEMENTS THEN 0 ELSE next
             handle == get_by_index(elements, shown)
         IN  [move_actions |-> [ma EXCEPT !.new_scene_released = FALSE, !.shown_scene = shown],
              scenes |-> IF handle.some
                         THEN {SceneEntity(id, "spawn_new_scene", handle.value, FALSE, 0)}
                         ELSE {},
              no_asset |-> ~handle.some]

\* ------------------------------------------------------------ snap-turn
turn_fires_ignoring_ready(turn_value, ready) == Abs(turn_value) > TURN_ON

turn_fires_above_nine_tenths(turn_value, ready) == Abs(turn_value) > TURN_ON + 1 /\ ready

\* turn_value.abs() > 0.8 && turn_state.ready
turn_fires(turn_value, ready) == Abs(turn_value) > TURN_ON /\ ready

turn_rearms_at_activation(turn_value) == Abs(turn_value) <= TURN_ON

\* turn_value.abs() < 0.2
turn_rearms(turn_value) == Abs(turn_value) < TURN_OFF

turn_angle_same_sign(turn_value) == IF turn_value > 0 THEN FRAC_PI_4 ELSE -FRAC_PI_4

\* if turn_value > 0.0 { -FRAC_PI_4 } else { FRAC_PI_4 }
turn_angle(turn_value) == IF turn_value > 0 THEN -FRAC_PI_4 ELSE FRAC_PI_4

snap_turn_system_no_cooldown(turn_value, ready, rt, roots, heads, local_headset) ==
    LET world_headset == VAdd(rt.translation, mul_vec3(rt.rotation, local_headset))
        turned == Abs(turn_value) > TURN_ON /\ ready /\ roots = 1 /\ heads = 1
        rt1 == IF turned
               THEN rotate_around(rt, world_headset,
                                  from_rotation_y(IF turn_value > 0 THEN -FRAC_PI_4 ELSE FRAC_PI_4))
               ELSE rt
    IN  [root |-> rt1, ready |-> IF Abs(turn_value) < TURN_OFF THEN TRUE ELSE ready]

\* lib.rs: the result is the root transform and TurnState.ready after the system
snap_turn_system(turn_value, ready, rt, roots, heads, local_headset) ==
    LET world_headset == VAdd(rt.translation, mul_vec3(rt.rotation, local_headset))
        turned == turn_fires(turn_value, ready) /\ roots = 1 /\ heads = 1
        rt1 == IF turned
               THEN rotate_around(rt, world_headset, from_rotation_y(turn_angle(turn_value)))
               ELSE rt
        ready1 == IF turned THEN FALSE ELSE ready
    IN  [root |-> rt1, ready |-> IF turn_rearms(turn_value) THEN TRUE ELSE ready1]

\* main.rs: no headset view; the root turns about its own origin
main_snap_turn_system(turn_value, ready, rt, roots) ==
    LET turned == turn_fires(turn_value, ready) /\ roots = 1
        rt1 == IF turned THEN rotate(rt, from_rotation_y(turn_angle(turn_value))) ELSE rt
        ready1 == IF turned THEN FALSE ELSE ready
    IN  [root |-> rt1, ready |-> IF turn_rearms(turn_value) THEN TRUE ELSE ready1]

\* ------------------------------------------------- continuous locomotion
\* Vec2::length_squared
length_squared(v) == v.x * v.x + v.y * v.y

move_delta_axes_swapped(movevals, hand_rot, k) ==
    LET forward == mul_vec3(hand_rot, VNeg(VecZ))
        right == mul_vec3(hand_rot, VecX)
    IN  VAdd(VScale(forward, movevals.x * k), VScale(right, movevals.y * k))

\* forward * movevals.y * k + right * movevals.x * k, forward and right the -Z and
\* +X axes rotated by the hand's orientation (unit vectors: normalize() keeps them)
move_delta(movevals, hand_rot, k) ==
    LET forward == mul_vec3(hand_rot, VNeg(VecZ))
        right == mul_vec3(hand_rot, VecX)
    IN  VAdd(VScale(forward, movevals.y * k), VScale(right, movevals.x * k))

run_in_root_frame(movevals, rt, roots, hand, hand_rot) ==
    IF length_squared(movevals) > DEAD_ZONE /\ roots = 1 /\ hand
    THEN [rt EXCEPT !.translation =
                VAdd(@, move_delta(movevals, (hand_rot + rt.rotation) % 8, SPEED))]
    ELSE rt

\* lib.rs: the root transform after the system
run(movevals, rt, roots, hand, hand_rot) ==
    IF length_squared(movevals) > DEAD_ZONE /\ roots = 1 /\ hand
    THEN [rt EXCEPT !.translation = VAdd(@, move_delta(movevals, hand_rot, SPEED))]
    ELSE rt

\* main.rs: returns early below the dead zone only
main_run(movevals, rt, roots, hand, hand_rot) ==
    IF length_squared(movevals) < DEAD_ZONE
    THEN rt
    ELSE IF roots = 1 /\ hand
         THEN [rt EXCEPT !.translation = VAdd(@, move_delta(movevals, hand_rot, MAIN_SPEED))]
         ELSE rt


\* ------------------------------------------------ missing action values
\* the systems from their first statement, query.get(action).unwrap(): value is
\* the Option the query returns, None panicking before anything is written
snap_turn_frame_defaulting(value, ready, rt, roots, heads, local_headset) ==
    LET res == snap_turn_system(IF value.some THEN value.value ELSE 0, ready, rt, roots,
                                heads, local_headset)
    IN  [panicked |-> FALSE, root |-> res.root, ready |-> res.ready]

snap_turn_frame(value, ready, rt, roots, heads, local_headset) ==
    IF ~value.some
    THEN [panicked |-> TRUE, root |-> rt, ready |-> ready]
    ELSE LET res == snap_turn_system(value.value, ready, rt, roots, heads, local_headset)
         IN  [panicked |-> FALSE, root |-> res.root, ready |-> res.ready]

main_snap_turn_frame(value, ready, rt, roots) ==
    IF ~value.some
    THEN [panicked |-> TRUE, root |-> rt, ready |-> ready]
    ELSE LET res == main_snap_turn_system(value.value, ready, rt, roots)
         IN  [panicked |-> FALSE, root |-> res.root, ready |-> res.ready]

run_frame(value, rt, roots, hand, hand_rot) ==
    IF ~value.some
    THEN [panicked |-> TRUE, root |-> rt]
    ELSE [panicked |-> FALSE, root |-> run(value.value, rt, roots, hand, hand_rot)]

main_run_frame(value, rt, roots, hand, hand_rot) ==
    IF ~value.some
    THEN [panicked |-> TRUE, root |-> rt]
    ELSE [panicked |-> FALSE, root |-> main_run(value.value, rt, roots, hand, hand_rot)]

spawn_new_scene_frame(value, ma, scs, elements, id) ==
    IF ~value.some
    THEN [panicked |-> TRUE, move_actions |-> ma, scenes |-> scs]
    ELSE LET res == spawn_new_scene(value.value, ma, scs, elements, id)
         IN  [panicked |-> FALSE, move_actions |-> res.move_actions, scenes |-> res.scenes]

\* move_keyboard reads its six values in turn and then moves the KeyboardCamera
\* entities, of which there are none
move_keyboard(values) == [panicked |-> \E i \in 1..Len(values) : ~values[i].some]

\* what a query for an action value can return
Option(S) == {None} \cup {Some(v) : v \in S}

\* ------------------------------------------------------- bookkeeping
NoLast == [sys |-> "none", turn_value |-> 0, local_headset |-> IVec3(0, 0, 0),
           movevals |-> Vec2(0, 0), hand_rot |-> 0, fired |-> FALSE,
           gesture_turns |-> -1, gesture_avail |-> FALSE]
NoGesture == [active |-> FALSE, turns |-> 0, avail |-> FALSE]
SCENARIO == <<9, 9, 1, 9>>
NoScenario == [pos |-> 0, fired |-> {}]
BeyondLen == 2    \* indices past the end of the list that are looked up
Indices == 0..(Len(ASSET_ELEMENTS) + BeyondLen) \cup {NOTHING}
NoAnim == [calls |-> 0, has_animation_to_play |-> FALSE, before |-> <<>>, after |-> <<>>]
NoPress == [frames |-> 0, switches |-> 0]
NoSceneLast == [called |-> FALSE, any |-> FALSE, before |-> 0, after |-> 0,
                switched |-> FALSE, no_asset |-> FALSE]
NoUnwrap == [sys |-> "none", missing |-> FALSE]
NoCommute == [done |-> FALSE, order |-> "none", turned |-> FALSE, moved |-> FALSE,
              other |-> [root |-> [translation |-> VecZERO, rotation |-> 0],
                         ready |-> FALSE]]
StartupSystems == {"setup_mesh_and_animation", "setup2"}
NoMoveActions == [shown_scene |-> 0, new_scene_released |-> FALSE, inserted |-> FALSE]
NoLookup == [calls |-> 0, index |-> 0, result |-> None, seen |-> [i \in Indices |-> <<>>]]

\* a unique tracking root and, in lib.rs, a unique headset view
Available == xr_tracking_roots = 1 /\ (app = "main" \/ headset_views = 1)

\* the deflection in progress after a tick: it starts at a tick above 0.8 taken in
\* the ready state and ends at the first tick below 0.2
GestureAfter(tv, fired) ==
    IF gesture.active
    THEN IF Abs(tv) < TURN_OFF
         THEN NoGesture
         ELSE [gesture EXCEPT !.turns = @ + (IF fired THEN 1 ELSE 0)]
    ELSE IF Abs(tv) > TURN_ON /\ turn_state.ready
         THEN [active |-> TRUE, turns |-> IF fired THEN 1 ELSE 0, avail |-> Available]
         ELSE NoGesture

\* progress through SCENARIO after a tick: it starts in the ready state and every
\* tick of it finds the root and the headset view
ScenarioAfter(tv, fired) ==
    LET hit(k) == IF fired THEN {k} ELSE {}
    IN  IF scenario.pos \in 1..3 /\ Available /\ tv = SCENARIO[scenario.pos + 1]
        THEN [pos |-> scenario.pos + 1, fired |-> scenario.fired \cup hit(scenario.pos + 1)]
        ELSE IF turn_state.ready /\ Available /\ tv = SCENARIO[1]
             THEN [pos |-> 1, fired |-> hit(1)]
             ELSE NoScenario

\* ---------------------------------------------------------------- Init
\* App::new() ... .insert_resource(TurnState::default()): bool::default() is false
Init ==
    /\ app \in {"lib", "main"}
    /\ phase = IF app = "lib" THEN "PreStartup" ELSE "Startup"
    /\ asset_elements = <<>>
    /\ turn_state = [ready |-> FALSE]
    /\ root_transform = [translation |-> VecZERO, rotation |-> 0]
    /\ xr_tracking_roots = 1
    /\ headset_views = 0
    /\ right_hand_tracked = FALSE
    /\ ticks = 0
    /\ moves = 0
    /\ turns = 0
    /\ last = NoLast
    /\ released = TRUE
    /\ gesture = NoGesture
    /\ scenario = NoScenario
    /\ lookup = NoLookup
    /\ started = {}
    /\ move_actions = NoMoveActions
    /\ scenes = {}
    /\ spawned = 0
    /\ anim = NoAnim
    /\ frames = 0
    /\ switches = 0
    /\ press = NoPress
    /\ started_at = {}
    /\ scene_last = NoSceneLast
    /\ crashed = FALSE
    /\ uframes = 0
    /\ unwrap_last = NoUnwrap
    /\ cframes = 0
    /\ commute = NoCommute

\* -------------------------------------------------------------- actions
\* PreStartup (lib.rs): insert the AssetElementList
SetupAssets ==
    /\ app = "lib"
    /\ phase = "PreStartup"
    /\ asset_elements' = setup_assets
    /\ phase' = "Startup"
    /\ last' = [NoLast EXCEPT !.sys = "setup_assets"]
    /\ UNCHANGED <<app, turn_state, root_transform, xr_tracking_roots, headset_views,
                   right_hand_tracked, ticks, moves, turns, released, gesture, scenario,
                   lookup, sceneVars, unwrapVars, commuteVars>>

\* the schedule after Startup system sys has run: Update once all have
PhaseAfter(sys) == IF started \cup {sys} = StartupSystems THEN "Update" ELSE "Startup"

\* Startup: the animated scene entity is spawned with its observer
SetupMeshAndAnimation ==
    /\ phase = "Startup"
    /\ "setup_mesh_and_animation" \notin started
    /\ started' = started \cup {"setup_mesh_and_animation"}
    /\ phase' = PhaseAfter("setup_mesh_and_animation")
    /\ LET new == IF app = "lib" THEN setup_mesh_and_animation(asset_elements, spawned)
                  ELSE main_setup_mesh_and_animation(spawned)
       IN  /\ scenes' = scenes \cup new
           /\ spawned' = spawned + Cardinality(new)
    /\ last' = [NoLast EXCEPT !.sys = "setup_mesh_and_animation"]
    /\ UNCHANGED <<app, asset_elements, turn_state, root_transform, xr_tracking_roots,
                   headset_views, right_hand_tracked, ticks, moves, turns, released,
                   gesture, scenario, lookup, move_actions, anim, sceneGhost, unwrapVars,
                   commuteVars>>

\* Startup: the actions, their values and the two hand entities are spawned, the
\* hands without a transform; lib.rs inserts MoveActions with shown_scene 0 and
\* new_scene_released true
Setup2 ==
    /\ phase = "Startup"
    /\ "setup2" \notin started
    /\ started' = started \cup {"setup2"}
    /\ phase' = PhaseAfter("setup2")
    /\ right_hand_tracked' = FALSE
    /\ move_actions' = IF app = "lib"
                       THEN [shown_scene |-> 0, new_scene_released |-> TRUE, inserted |-> TRUE]
                       ELSE move_actions
    /\ last' = [NoLast EXCEPT !.sys = "setup2"]
    /\ UNCHANGED <<app, asset_elements, turn_state, root_transform, xr_tracking_roots,
                   headset_views, ticks, moves, turns, released, gesture, scenario, lookup,
                   scenes, spawned, anim, sceneGhost, unwrapVars, commuteVars>>

\* XrSessionCreated (lib.rs): one more HeadsetView entity
CreateViewSpace ==
    /\ app = "lib"
    /\ phase = "Update"
    /\ headset_views < MaxSessions
    /\ headset_views' = headset_views + 1
    /\ last' = [NoLast EXCEPT !.sys = "create_view_space"]
    /\ UNCHANGED <<app, phase, asset_elements, turn_state, root_transform,
                   xr_tracking_roots, right_hand_tracked, ticks, moves, turns, released,
                   gesture, scenario, lookup, sceneVars, unwrapVars, commuteVars>>

\* the pose space bound by AttachSpaceToEntity(right_hand) is located: the hand
\* entity gets its GlobalTransform
AttachHandSpace ==
    /\ phase = "Update"
    /\ ~right_hand_tracked
    /\ right_hand_tracked' = TRUE
    /\ last' = [NoLast EXCEPT !.sys = "attach_space"]
    /\ UNCHANGED <<app, phase, asset_elements, turn_state, root_transform,
                   xr_tracking_roots, headset_views, ticks, moves, turns, released,
                   gesture, scenario, lookup, sceneVars, unwrapVars, commuteVars>>

\* Update: one execution of snap_turn_system
SnapTurn ==
    /\ phase = "Update"
    /\ ticks < MaxTicks
    /\ \E tv \in TurnVals :
       \E h \in (IF app = "lib" /\ headset_views = 1 THEN HeadLocals ELSE {IVec3(0, 0, 0)}) :
          LET res == IF app = "lib"
                     THEN snap_turn_system(tv, turn_state.ready, root_transform,
                                           xr_tracking_roots, headset_views, h)
                     ELSE main_snap_turn_system(tv, turn_state.ready, root_transform,
                                                xr_tracking_roots)
              fired == res.root.rotation # root_transform.rotation
              g == GestureAfter(tv, fired)
              ended == gesture.active /\ ~g.active
          IN  /\ root_transform' = res.root
              /\ turn_state' = [ready |-> res.ready]
              /\ turns' = turns + (IF fired THEN 1 ELSE 0)
              /\ released' = IF fired THEN FALSE
                             ELSE IF Abs(tv) < TURN_OFF THEN TRUE ELSE released
              /\ gesture' = g
              /\ scenario' = ScenarioAfter(tv, fired)
              /\ last' = [NoLast EXCEPT !.sys = "snap_turn_system", !.turn_value = tv,
                                        !.local_headset = h, !.fired = fired,
                                        !.gesture_turns = IF ended THEN gesture.turns ELSE -1,
                                        !.gesture_avail = ended /\ gesture.avail]
    /\ ticks' = ticks + 1
    /\ UNCHANGED <<app, phase, asset_elements, xr_tracking_roots, headset_views,
                   right_hand_tracked, moves, lookup, sceneVars, unwrapVars, commuteVars>>

\* Update: one execution of run
Run ==
    /\ phase = "Update"
    /\ moves < MaxMoves
    /\ \E mv \in MoveVals :
       \E hr \in (IF right_hand_tracked THEN HandRots ELSE {0}) :
          /\ root_transform' =
                IF app = "lib"
                THEN run(mv, root_transform, xr_tracking_roots, right_hand_tracked, hr)
                ELSE main_run(mv, root_transform, xr_tracking_roots, right_hand_tracked, hr)
          /\ last' = [NoLast EXCEPT !.sys = "run", !.movevals = mv, !.hand_rot = hr]
    /\ moves' = moves + 1
    /\ UNCHANGED <<app, phase, asset_elements, turn_state, xr_tracking_roots,
                   headset_views, right_hand_tracked, ticks, turns, released, gesture,
                   scenario, lookup, sceneVars, unwrapVars, commuteVars>>

Next == SetupAssets \/ SetupMeshAndAnimation \/ Setup2 \/ CreateViewSpace \/ AttachHandSpace \/ SnapTurn \/ Run

Spec == Init /\ [][Next]_vars

\* ------------------------------------------- the lookup specification
\* get_by_index applied to the list setup_assets built, for indices inside and
\* outside of it
CallGetByIndex ==
    /\ phase # "PreStartup"
    /\ lookup.calls < MaxLookups
    /\ \E i \in Indices :
          LET r == get_by_index(asset_elements, i)
          IN  lookup' = [calls |-> lookup.calls + 1, index |-> i, result |-> r,
                         seen |-> [lookup.seen EXCEPT ![i] = Append(@, r)]]
    /\ last' = [NoLast EXCEPT !.sys = "get_by_index"]
    /\ UNCHANGED <<app, phase, asset_elements, turn_state, root_transform,
                   xr_tracking_roots, headset_views, right_hand_tracked, ticks, moves,
                   turns, released, gesture, scenario, sceneVars, unwrapVars, commuteVars>>

InitLookup == Init /\ app = "lib"

NextLookup == SetupAssets \/ CallGetByIndex

SpecLookup == InitLookup /\ [][NextLookup]_vars

\* ------------------------------------------- the scene specification
\* the scene of entity e finishes instantiating: its hierarchy of at most
\* MaxSceneNodes descendants is there and SceneInstanceReady is triggered on e once,
\* which runs the observers attached to e
SceneInstanceReady ==
    /\ phase = "Update"
    /\ \E e \in scenes :
          /\ ~e.ready
          /\ \E nodes \in Subtrees(MaxSceneNodes) :
                LET after == run_observers(e.observers, e.animation_to_play, nodes)
                    ready == [e EXCEPT !.ready = TRUE, !.runs = e.observers,
                                       !.nodes = after]
                IN  /\ scenes' = (scenes \ {e}) \cup {ready}
                    /\ started_at' = IF \E i \in 1..Len(after) : after[i].playing
                                     THEN started_at \cup {switches}
                                     ELSE started_at
    /\ last' = [NoLast EXCEPT !.sys = "scene_instance_ready"]
    /\ UNCHANGED <<app, phase, asset_elements, turn_state, root_transform,
                   xr_tracking_roots, headset_views, right_hand_tracked, ticks, moves,
                   turns, released, gesture, scenario, lookup, started, move_actions,
                   spawned, anim, frames, switches, press, scene_last, unwrapVars,
                   commuteVars>>

\* Update (lib.rs): one execution of spawn_new_scene, the button held or not
SpawnNewScene ==
    /\ app = "lib"
    /\ phase = "Update"
    /\ frames < MaxFrames
    /\ \E any \in BOOLEAN :
          LET res == spawn_new_scene(any, move_actions, scenes, asset_elements, spawned)
              switched == \/ res.move_actions.shown_scene # move_actions.shown_scene
                          \/ res.scenes # scenes
              n == IF switched THEN 1 ELSE 0
          IN  /\ move_actions' = res.move_actions
              /\ scenes' = res.scenes
              /\ spawned' = spawned + Cardinality(res.scenes \ scenes)
              /\ switches' = switches + n
              /\ press' = IF any
                          THEN [frames |-> press.frames + 1, switches |-> press.switches + n]
                          ELSE [frames |-> 0, switches |-> n]
              /\ scene_last' = [called |-> TRUE, any |-> any,
                                before |-> move_actions.shown_scene,
                                after |-> res.move_actions.shown_scene,
                                switched |-> switched, no_asset |-> res.no_asset]
    /\ frames' = frames + 1
    /\ last' = [NoLast EXCEPT !.sys = "spawn_new_scene"]
    /\ UNCHANGED <<app, phase, asset_elements, turn_state, root_transform,
                   xr_tracking_roots, headset_views, right_hand_tracked, ticks, moves,
                   turns, released, gesture, scenario, lookup, started, anim, started_at,
                   unwrapVars, commuteVars>>

NextScene ==
    SetupAssets \/ SetupMeshAndAnimation \/ Setup2 \/ SceneInstanceReady \/ SpawnNewScene

SpecScene == Init /\ [][NextScene]_vars

\* ------------------------------------------- the unwrap specification
\* the per-frame systems executed with an action value that may be missing; a
\* panic ends the app
FrameStep(sys, missing, panicked) ==
    /\ uframes' = uframes + 1
    /\ crashed' = panicked
    /\ unwrap_last' = [sys |-> sys, missing |-> missing]
    /\ last' = [NoLast EXCEPT !.sys = sys]

RunFrame ==
    /\ phase = "Update" /\ ~crashed /\ uframes < MaxUnwrapFrames
    /\ \E value \in Option(MoveVals) :
       \E hr \in (IF right_hand_tracked THEN HandRots ELSE {0}) :
          LET res == IF app = "lib"
                     THEN run_frame(value, root_transform, xr_tracking_roots,
                                    right_hand_tracked, hr)
                     ELSE main_run_frame(value, root_transform, xr_tracking_roots,
                                         right_hand_tracked, hr)
          IN  /\ root_transform' = res.root
              /\ FrameStep("run", ~value.some, res.panicked)
    /\ UNCHANGED <<app, phase, asset_elements, turn_state, xr_tracking_roots,
                   headset_views, right_hand_tracked, ticks, moves, turns, released,
                   gesture, scenario, lookup, sceneVars, commuteVars>>

SnapTurnFrame ==
    /\ phase = "Update" /\ ~crashed /\ uframes < MaxUnwrapFrames
    /\ \E value \in Option(TurnVals) :
       \E h \in (IF app = "lib" /\ headset_views = 1 THEN HeadLocals ELSE {IVec3(0, 0, 0)}) :
          LET res == IF app = "lib"
                     THEN snap_turn_frame(value, turn_state.ready, root_transform,
                                          xr_tracking_roots, headset_views, h)
                     ELSE main_snap_turn_frame(value, turn_state.ready, root_transform,
                                               xr_tracking_roots)
          IN  /\ root_transform' = res.root
              /\ turn_state' = [ready |-> res.ready]
              /\ FrameStep("snap_turn_system", ~value.some, res.panicked)
    /\ UNCHANGED <<app, phase, asset_elements, xr_tracking_roots, headset_views,
                   right_hand_tracked, ticks, moves, turns, released, gesture, scenario,
                   lookup, sceneVars, commuteVars>>

SpawnNewSceneFrame ==
    /\ app = "lib"
    /\ phase = "Update" /\ ~crashed /\ uframes < MaxUnwrapFrames
    /\ \E value \in Option(BOOLEAN) :
          LET res == spawn_new_scene_frame(value, move_actions, scenes, asset_elements,
                                           spawned)
          IN  /\ move_actions' = res.move_actions
              /\ scenes' = res.scenes
              /\ spawned' = spawned + Cardinality(res.scenes \ scenes)
              /\ FrameStep("spawn_new_scene", ~value.some, res.panicked)
    /\ UNCHANGED <<app, phase, asset_elements, turn_state, root_transform,
                   xr_tracking_roots, headset_views, right_hand_tracked, ticks, moves,
                   turns, released, gesture, scenario, lookup, started, anim, sceneGhost,
                   commuteVars>>

MoveKeyboardFrame ==
    /\ app = "lib"
    /\ phase = "Update" /\ ~crashed /\ uframes < MaxUnwrapFrames
    /\ \E values \in [1..6 -> Option(BOOLEAN)] :
          FrameStep("move_keyboard", \E i \in 1..6 : values[i] = None,
                    move_keyboard(values).panicked)
    /\ UNCHANGED <<app, phase, asset_elements, turn_state, root_transform,
                   xr_tracking_roots, headset_views, right_hand_tracked, ticks, moves,
                   turns, released, gesture, scenario, lookup, sceneVars, commuteVars>>

NextUnwrap ==
    \/ SetupAssets \/ SetupMeshAndAnimation \/ Setup2 \/ CreateViewSpace \/ AttachHandSpace
    \/ RunFrame \/ SnapTurnFrame \/ SpawnNewSceneFrame \/ MoveKeyboardFrame

SpecUnwrap == Init /\ [][NextUnwrap]_vars

\* ------------------------------------------ the commute specification
\* run alone, from root rt
run_only(mv, rt, hr) ==
    IF app = "lib" THEN run(mv, rt, xr_tracking_roots, right_hand_tracked, hr)
    ELSE main_run(mv, rt, xr_tracking_roots, right_hand_tracked, hr)

\* snap_turn_system alone, from root rt and TurnState ready
snap_only(tv, ready, rt, h) ==
    IF app = "lib"
    THEN snap_turn_system(tv, ready, rt, xr_tracking_roots, headset_views, h)
    ELSE main_snap_turn_system(tv, ready, rt, xr_tracking_roots)

\* run and then snap_turn_system
run_then_snap(mv, tv, ready, rt, hr, h) == snap_only(tv, ready, run_only(mv, rt, hr), h)

\* snap_turn_system and then run
snap_then_run(mv, tv, ready, rt, hr, h) ==
    LET res == snap_only(tv, ready, rt, h)
    IN  [root |-> run_only(mv, res.root, hr), ready |-> res.ready]

\* Update: one frame in which both systems run, in the order the scheduler picks;
\* both read the same action values, hand pose and headset position
UpdateFrame ==
    /\ phase = "Update"
    /\ cframes < MaxCommuteFrames
    /\ \E order \in {"run_first", "snap_first"} :
       \E mv \in MoveVals :
       \E tv \in TurnVals :
       \E hr \in (IF right_hand_tracked THEN HandRots ELSE {0}) :
       \E h \in (IF app = "lib" /\ headset_views = 1 THEN HeadLocals ELSE {IVec3(0, 0, 0)}) :
          LET a == run_then_snap(mv, tv, turn_state.ready, root_transform, hr, h)
              b == snap_then_run(mv, tv, turn_state.ready, root_transform, hr, h)
              res == IF order = "run_first" THEN a ELSE b
          IN  /\ root_transform' = res.root
              /\ turn_state' = [ready |-> res.ready]
              /\ commute' = [done |-> TRUE, order |-> order,
                             turned |-> snap_only(tv, turn_state.ready, root_transform,
                                                  h).root # root_transform,
                             moved |-> run_only(mv, root_transform, hr) # root_transform,
                             other |-> IF order = "run_first" THEN b ELSE a]
    /\ cframes' = cframes + 1
    /\ last' = [NoLast EXCEPT !.sys = "update_frame"]
    /\ UNCHANGED <<app, phase, asset_elements, xr_tracking_roots, headset_views,
                   right_hand_tracked, ticks, moves, turns, released, gesture, scenario,
                   lookup, sceneVars, unwrapVars>>

NextCommute ==
    \/ SetupAssets \/ SetupMeshAndAnimation \/ Setup2 \/ CreateViewSpace \/ AttachHandSpace
    \/ UpdateFrame

SpecCommute == Init /\ [][NextCommute]_vars

\* ---------------------------------------- the animation specification
\* the observer applied to an entity with or without an AnimationToPlay and to any
\* freshly spawned hierarchy of at most MaxNodes descendants
CallPlayAnimation ==
    /\ anim.calls < MaxAnimCalls
    /\ \E has_animation_to_play \in BOOLEAN :
       \E nodes \in Subtrees(MaxNodes) :
          anim' = [calls |-> anim.calls + 1,
                   has_animation_to_play |-> has_animation_to_play,
                   before |-> nodes,
                   after |-> play_animation_when_ready(has_animation_to_play, nodes)]
    /\ UNCHANGED <<app, phase, asset_elements, turn_state, root_transform,
                   xr_tracking_roots, headset_views, right_hand_tracked, ticks, moves,
                   turns, last, released, gesture, scenario, lookup, started,
                   move_actions, scenes, spawned, sceneGhost, unwrapVars, commuteVars>>

NextAnim == CallPlayAnimation

SpecAnim == Init /\ [][NextAnim]_vars

\* ---------------------------------------------------------- well-formed
\* every coordinate of the root stays of the form r + s*(sqrt(2)/2) with the
\* halvings of mul_vec3 exact
TypeOK ==
    /\ app \in {"lib", "main"}
    /\ phase \in {"PreStartup", "Startup", "Update"}
    /\ turn_state.ready \in BOOLEAN
    /\ root_transform.rotation \in 0..7
    /\ (root_transform.translation.x.s - root_transform.translation.z.s) % 2 = 0
    /\ headset_views \in 0..MaxSessions
    /\ ticks \in 0..MaxTicks
    /\ moves \in 0..MaxMoves
    /\ turns \in 0..ticks


\* ---------------------------------------------------------------- steps
\* the step is an execution of snap_turn_system / of run
Tick == ticks' = ticks + 1
MoveStep == moves' = moves + 1
\* the headset's position in world space under root transform rt
WorldHeadset(rt, local) == VAdd(rt.translation, mul_vec3(rt.rotation, local))
\* forward*v.y*k + right*v.x*k in components, for a hand turned by rot about Y:
\* forward = (-sin, 0, -cos), right = (cos, 0, -sin)
ExpectedDelta(v, rot, k) ==
    Vec3(NSub(NScale(Cos8(rot), v.x * k), NScale(Sin8(rot), v.y * k)),
         Zero,
         NNeg(NAdd(NScale(Cos8(rot), v.y * k), NScale(Sin8(rot), v.x * k))))

\* ---------------------------------------------------------------- claims

\* C1: once a snap-turn has fired, no further snap-turn fires until a later tick
\* has |turn_value| < 0.2: every tick that fires a turn comes after a release
\* that followed the previous turn.
C1_NoRefireBeforeRelease == [][(Tick /\ last'.fired) => released]_vars

C1_Witness == turns >= 2 /\ last.fired

\* C2 as stated: every deflection-then-release gesture that starts in the Ready
\* state rotates the root exactly once.
C2_ExactlyOnePerGesture == last.gesture_turns \in {-1, 1}

\* C2 amended: a gesture rotates the root at most once, and exactly once when the
\* tracking root and (lib.rs) the headset view are there, each exactly one, at
\* the gesture's first tick above 0.8.
C2_AtMostOnePerGesture ==
    last.gesture_turns # -1 =>
        /\ last.gesture_turns \in {0, 1}
        /\ last.gesture_avail => last.gesture_turns = 1

C2_Witness == last.gesture_turns = 1 /\ last.gesture_avail

\* C3: TurnState.ready is true before the first execution of snap_turn_system.
C3_InitiallyReady == ticks = 0 => turn_state.ready

\* C4: from the Ready state, with root and headset view present, the turn_value
\* sequence 0.9 0.9 0.1 0.9 fires at ticks 1 and 4 only; tick 2 leaves the state
\* Cooldown and tick 3 re-arms it without turning.
C4_Scenario ==
    /\ scenario.pos = 1 => scenario.fired = {1} /\ ~turn_state.ready
    /\ scenario.pos = 2 => scenario.fired = {1} /\ ~turn_state.ready
    /\ scenario.pos = 3 => scenario.fired = {1} /\ turn_state.ready
    /\ scenario.pos = 4 => scenario.fired = {1, 4} /\ ~turn_state.ready

C4_Witness == scenario.pos = 4

\* C5: a tick takes Cooldown to Ready iff |turn_value| < 0.2; a Cooldown tick
\* with |turn_value| >= 0.2 leaves the state Cooldown and the root pose as it
\* was; no tick both fires a turn and ends in Ready.
C5_CooldownTransitions ==
    [][Tick =>
        /\ ~turn_state.ready => (turn_state'.ready <=> Abs(last'.turn_value) < 2)
        /\ (~turn_state.ready /\ Abs(last'.turn_value) >= 2) => root_transform' = root_transform
        /\ ~(last'.fired /\ turn_state'.ready)]_vars

C5_Witness ==
    /\ last.sys = "snap_turn_system"
    /\ Abs(last.turn_value) > 8
    /\ ~last.fired
    /\ ~turn_state.ready
    /\ turns >= 1

\* C6 as stated: a turn that fires pivots about the headset's world position when
\* a headset view exists; with no headset view a tick above 0.8 in the Ready state
\* still fires, about the root's own origin, and leaves the state Cooldown.
C6_FiresWithoutHeadset ==
    [][Tick =>
        /\ (last'.fired /\ headset_views >= 1) =>
              WorldHeadset(root_transform', last'.local_headset)
                 = WorldHeadset(root_transform, last'.local_headset)
        /\ (headset_views = 0 /\ xr_tracking_roots = 1 /\ turn_state.ready
              /\ Abs(last'.turn_value) > 8) =>
              /\ last'.fired
              /\ root_transform'.translation = root_transform.translation
              /\ ~turn_state'.ready]_vars

\* C6 amended: in lib.rs a turn fires only with exactly one headset view, and its
\* pivot is the headset's world position (the turn leaves that point where it
\* was); with no such view the tick leaves the root pose alone and the state
\* Ready.  In main.rs, which has no headset view, the turn is about the root's
\* own origin.  A fired turn leaves the state Cooldown.
C6_PivotIsHeadset ==
    [][Tick =>
        /\ (app = "lib" /\ last'.fired) =>
              /\ headset_views = 1
              /\ WorldHeadset(root_transform', last'.local_headset)
                    = WorldHeadset(root_transform, last'.local_headset)
              /\ ~turn_state'.ready
        /\ (app = "lib" /\ headset_views # 1) =>
              /\ root_transform' = root_transform
              /\ turn_state.ready => turn_state'.ready
        /\ (app = "main" /\ last'.fired) =>
              /\ root_transform'.translation = root_transform.translation
              /\ ~turn_state'.ready]_vars

C6_Witness ==
    /\ app = "lib"
    /\ last.fired
    /\ last.local_headset = IVec3(3, 16, -2)
    /\ root_transform.translation # VecZERO

\* C7: the root's rotation changes only by a fired snap-turn, by one eighth-turn
\* about Y: -45 degrees for turn_value > 0.8, +45 degrees for turn_value < -0.8.
C7_QuantumAngle ==
    [][root_transform'.rotation # root_transform.rotation =>
        /\ Tick
        /\ Abs(last'.turn_value) > 8
        /\ last'.turn_value > 0 => root_transform'.rotation = (root_transform.rotation + 7) % 8
        /\ last'.turn_value < 0 => root_transform'.rotation = (root_transform.rotation + 1) % 8
        /\ root_transform'.translation.y = root_transform.translation.y]_vars

C7_Witness == last.fired /\ last.turn_value < 0 /\ root_transform.rotation = 1

\* C8: run leaves the root's translation and rotation unchanged for every move
\* input with |v|^2 <= 0.05, the value 0.05 included.
C8_DeadZoneInclusive ==
    [][(MoveStep /\ length_squared(last'.movevals) <= 5) => root_transform' = root_transform]_vars

\* C9 as stated: for every move input with |v|^2 > 0.05, run adds
\* forward*v.y*k + right*v.x*k to the root's translation and keeps its rotation.
C9_AlwaysAddsDelta ==
    [][(MoveStep /\ length_squared(last'.movevals) > 5) =>
        /\ root_transform'.translation =
              VAdd(root_transform.translation,
                   ExpectedDelta(last'.movevals, last'.hand_rot, IF app = "lib" THEN 1 ELSE 5))
        /\ root_transform'.rotation = root_transform.rotation]_vars

\* C9 amended: for every move input with |v|^2 > 0.05, run adds
\* forward*v.y*k + right*v.x*k (k = 0.01 in lib.rs, 0.05 in main.rs; forward and
\* right from the right hand's orientation) when there is exactly one tracking
\* root and the right hand has a global transform, and leaves the translation
\* alone otherwise; it never changes the rotation.
C9_AddsDeltaWhenTracked ==
    [][(MoveStep /\ length_squared(last'.movevals) > 5) =>
        /\ root_transform'.translation =
              IF xr_tracking_roots = 1 /\ right_hand_tracked
              THEN VAdd(root_transform.translation,
                        ExpectedDelta(last'.movevals, last'.hand_rot,
                                      IF app = "lib" THEN 1 ELSE 5))
              ELSE root_transform.translation
        /\ root_transform'.rotation = root_transform.rotation]_vars

C9_Witness ==
    /\ last.sys = "run"
    /\ length_squared(last.movevals) > 5
    /\ last.hand_rot = 1
    /\ right_hand_tracked
    /\ root_transform.translation # VecZERO

\* C10: on the list built at startup from the two entries of ASSET_ELEMENTS,
\* get_by_index(i) is absent for every i >= 2 (NOTHING included) and is the handle
\* loaded for entry i for i < 2; calls with the same index give the same result,
\* and the list stays as it was built.
C10_Lookup ==
    /\ phase # "PreStartup" =>
          asset_elements = <<[asset |-> [label |-> "Scene0", path |-> "simpleHumanRig.glb"]],
                             [asset |-> [label |-> "Scene0", path |-> "simpleWall.glb"]]>>
    /\ lookup.calls > 0 =>
          /\ lookup.index >= 2 => lookup.result = None
          /\ lookup.index = 0 =>
                lookup.result = Some([label |-> "Scene0", path |-> "simpleHumanRig.glb"])
          /\ lookup.index = 1 =>
                lookup.result = Some([label |-> "Scene0", path |-> "simpleWall.glb"])
    /\ \A i \in Indices : \A j \in 1..Len(lookup.seen[i]) : lookup.seen[i][j] = lookup.seen[i][1]

C10_Witness == Len(lookup.seen[1]) >= 2 /\ Len(lookup.seen[NOTHING]) >= 1


\* ---------------------------------------------------------------- C11
\* the descendants of the subtree that carry an animation player / that play
PlayerNodes(nodes) == {i \in 1..Len(nodes) : nodes[i].player}
StartedNodes(nodes) == {i \in 1..Len(nodes) : nodes[i].playing}
GraphNodes(nodes) == {i \in 1..Len(nodes) : nodes[i].graph}

\* C11 as stated: when the startup scene is ready, the animation is started, on
\* repeat and with its graph, on the first descendant that has an animation
\* player and on no other: the started nodes are that first player node alone
C11_OnlyFirstPlayer ==
    (anim.calls > 0 /\ anim.has_animation_to_play /\ PlayerNodes(anim.before) # {})
        => /\ Cardinality(StartedNodes(anim.after)) = 1
           /\ \A i \in StartedNodes(anim.after) : \A j \in PlayerNodes(anim.before) : i <= j
           /\ GraphNodes(anim.after) = StartedNodes(anim.after)

\* C11 amended: the animation is started on every descendant that has an animation
\* player, each getting the graph, and on no node without a player; this is
\* exactly one node when the subtree holds exactly one player
C11_EveryPlayer ==
    (anim.calls > 0 /\ anim.has_animation_to_play)
        => /\ StartedNodes(anim.after) = PlayerNodes(anim.before)
           /\ GraphNodes(anim.after) = PlayerNodes(anim.before)
           /\ Len(anim.after) = Len(anim.before)
           /\ \A i \in 1..Len(anim.after) : anim.after[i].player = anim.before[i].player

C11_Witness ==
    /\ anim.calls > 0
    /\ anim.has_animation_to_play
    /\ Cardinality(PlayerNodes(anim.before)) >= 2
    /\ StartedNodes(anim.after) = PlayerNodes(anim.before)

\* ---------------------------------------------------------------- C13
\* C13: when the subtree has no node with an animation player, or the entity has
\* no animation-to-play component, the observer leaves every node as it was:
\* nothing plays and no graph is attached
C13_NothingStarted ==
    (anim.calls > 0 /\ (~anim.has_animation_to_play \/ PlayerNodes(anim.before) = {}))
        => /\ anim.after = anim.before
           /\ StartedNodes(anim.after) = {}
           /\ GraphNodes(anim.after) = {}

C13_Witness ==
    /\ anim.calls > 0
    /\ ~anim.has_animation_to_play
    /\ PlayerNodes(anim.before) # {}
    /\ anim.after = anim.before


\* ---------------------------------------------------------------- C12
\* C12: the startup scene's players are started only by its scene-ready trigger
\* and the start logic runs at most once for it: while the scene has not finished
\* loading the observer has not run and no node plays or has a graph; a node that
\* plays or has a graph belongs to a ready scene whose observer ran exactly once
C12_StartOnlyWhenReady ==
    \A e \in scenes :
        e.origin = "setup_mesh_and_animation" =>
            /\ e.runs <= 1
            /\ ~e.ready => (e.runs = 0 /\ e.nodes = <<>>)
            /\ (StartedNodes(e.nodes) \cup GraphNodes(e.nodes) # {}) => (e.ready /\ e.runs = 1)

C12_Witness ==
    \E e \in scenes :
        /\ e.origin = "setup_mesh_and_animation"
        /\ e.ready
        /\ e.runs = 1
        /\ StartedNodes(e.nodes) # {}

\* ---------------------------------------------------------------- C15
\* C15: a contiguous press of new_scene switches the scene exactly once, however
\* many frames it lasts: over the pressed frames processed since the last frame
\* with the value false, shown_scene or the SceneRoot entities changed in exactly
\* one, and a frame that does not switch leaves both as they were
C15_OneSwitchPerPress ==
    /\ press.frames >= 1 => press.switches = 1
    /\ (scene_last.called /\ ~scene_last.any) => ~scene_last.switched
    /\ (scene_last.called /\ scene_last.any /\ press.frames >= 2) => ~scene_last.switched

C15_Witness ==
    /\ press.frames >= 3
    /\ press.switches = 1
    /\ switches >= 2

\* ---------------------------------------------------------------- C16
\* C16: shown_scene stays in 0..MAX_ASSET_ELEMENTS-1: it starts at 0, an execution
\* of spawn_new_scene that accepts a press moves it to (shown_scene + 1) mod
\* MAX_ASSET_ELEMENTS, every other step leaves it unchanged, and the lookup of
\* spawn_new_scene never misses
C16_ShownSceneInRange ==
    [][ /\ move_actions'.shown_scene \in 0..(MAX_ASSET_ELEMENTS - 1)
        /\ move_actions.shown_scene \in 0..(MAX_ASSET_ELEMENTS - 1)
        /\ (~move_actions.inserted) => move_actions.shown_scene = 0
        /\ IF frames' = frames + 1 /\ scene_last'.switched
           THEN move_actions'.shown_scene = (move_actions.shown_scene + 1) % MAX_ASSET_ELEMENTS
           ELSE move_actions'.shown_scene = move_actions.shown_scene
        /\ ~scene_last'.no_asset ]_vars

C16_Witness ==
    /\ switches >= MAX_ASSET_ELEMENTS
    /\ move_actions.shown_scene = 0
    /\ scene_last.switched
    /\ scene_last.before = MAX_ASSET_ELEMENTS - 1

\* ---------------------------------------------------------------- C17
\* C17: at most one entity with a SceneRoot exists in every state; after a switch
\* the only one is the scene just spawned for the asset at shown_scene
C17_AtMostOneSceneRoot ==
    /\ Cardinality(scenes) <= 1
    /\ (phase = "Update" /\ switches = 0) =>
           \E e \in scenes : e.origin = "setup_mesh_and_animation"
    /\ switches >= 1 =>
           \E e \in scenes :
               /\ e.origin = "spawn_new_scene"
               /\ e.id = spawned - 1
               /\ Some(e.asset) = get_by_index(asset_elements, move_actions.shown_scene)

C17_Witness ==
    /\ switches >= 2
    /\ Cardinality(scenes) = 1
    /\ \E e \in scenes : e.origin = "spawn_new_scene" /\ e.ready

\* ---------------------------------------------------------------- C18
\* C18: only the startup scene can have its animation started: a scene spawned by
\* spawn_new_scene has no AnimationToPlay and no observer and none of its nodes
\* ever plays or has a graph, so every animation start happened before the first
\* switch
C18_OnlyStartupAnimated ==
    /\ started_at \subseteq {0}
    /\ \A e \in scenes :
           e.origin = "spawn_new_scene" =>
               /\ ~e.animation_to_play
               /\ e.observers = 0
               /\ e.runs = 0
               /\ StartedNodes(e.nodes) \cup GraphNodes(e.nodes) = {}

C18_Witness ==
    /\ switches >= 2
    /\ move_actions.shown_scene = 0
    /\ \E e \in scenes :
           /\ e.origin = "spawn_new_scene"
           /\ e.asset = load_scene("simpleHumanRig.glb")
           /\ e.ready
           /\ PlayerNodes(e.nodes) # {}
           /\ StartedNodes(e.nodes) = {}


\* ---------------------------------------------------------------- C14
\* C14: a per-frame system that finds its action value missing panics before it
\* writes anything: the step leaves the root pose, TurnState, shown_scene,
\* new_scene_released and the scene entities as they were and ends the app, and
\* a system that did not find its value missing does not end it
C14_PanicBeforeMutation ==
    [][ uframes' = uframes + 1 =>
           IF unwrap_last'.missing
           THEN /\ crashed'
                /\ root_transform' = root_transform
                /\ turn_state' = turn_state
                /\ move_actions' = move_actions
                /\ scenes' = scenes
           ELSE ~crashed' ]_vars

C14_Witness ==
    /\ crashed
    /\ unwrap_last.sys = "snap_turn_system"
    /\ unwrap_last.missing
    /\ ~turn_state.ready
    /\ Available


=============================================================================
